---- MODULE Spec2Model ----
(***************************************************************************)
(* A model of the call dispatch, retry and report polling core of the      *)
(* yandex_direct client (src/yandex_direct/client.py).                     *)
(*                                                                         *)
(* Python values are represented as follows.                               *)
(*   None            the empty sequence <<>>          (None)               *)
(*   an optional v   the one-element sequence <<v>>   (Some(v))            *)
(*   a dict          a function from string keys      (records)            *)
(*   an exception    a record with a "type" field                          *)
(* Delays are seconds, as integers.                                        *)
(***************************************************************************)
EXTENDS Integers, Sequences, FiniteSets, TLC

VARIABLES
    pc,                     \* position of the caller's thread
    op,                     \* the operation in progress
    args,                   \* the arguments the caller passed to it
    cfg,                    \* arguments of the with_retry decorator in use
    attempt,                \* loop index `attempt` of the running loop
    last_exception,         \* with_retry.wrapper: last_exception
    outer_attempt,          \* ServiceProxy.call's wrapper: attempt
    outer_last_exception,   \* ServiceProxy.call's wrapper: last_exception
    last_error,             \* get_report_ready: last_error
    attempts,               \* get_report_ready: argument `attempts`
    report_poll_interval_s, \* YandexDirectClient.report_poll_interval_s
    retry_settings,         \* YandexDirectClient.retry_* fields
    classified,             \* history: first outcome of each classified response
    threads,                \* calls running on other threads of the same client
    sent,                   \* log: url, payload and headers of every post_json call
    answers,                \* log: what the network did on every round trip
    requests,               \* log: outcome of every transport.post_json call
    sleeps,                 \* log: argument of every time.sleep call
    result                  \* how the operation ended (return or raise)

vars == <<pc, op, args, cfg, attempt, last_exception, outer_attempt,
          outer_last_exception, last_error, attempts, report_poll_interval_s,
          retry_settings, classified, threads,
          sent, answers, requests, sleeps, result>>

----------------------------------------------------------------------------
(* Bounds of the model *)

MaxAttemptsBound == 3

MaxReportAttempts == 3

\* how many classifications of one response the history counts
MaxClassified == 2

\* the largest `attempts` a concurrent get_report_ready is called with
MaxThreadAttempts == 2

----------------------------------------------------------------------------
(* Python values *)

None == <<>>

Some(v) == <<v>>

EmptyDict == <<>>

DictGet(d, k) == IF k \in DOMAIN d THEN Some(d[k]) ELSE None

Return(v) == [kind |-> "return", value |-> v]

Raise(e) == [kind |-> "raise", exc |-> e]

Min(a, b) == IF a <= b THEN a ELSE b

RECURSIVE Pow(_, _)
Pow(b, n) == IF n = 0 THEN 1 ELSE b * Pow(b, n - 1)

----------------------------------------------------------------------------
(* exceptions.py *)

DirectTransportError(message) ==
    [type |-> "DirectTransportError", message |-> message]

DirectApiError(message, error_code, details, request_id, status_code) ==
    [type        |-> "DirectApiError",
     message     |-> message,
     error_code  |-> error_code,
     details     |-> IF DOMAIN details = {} THEN EmptyDict ELSE details,
     request_id  |-> request_id,
     status_code |-> status_code]

\* An exception that is no DirectError (raised by json.loads, dict access, raise None)
OtherError(name) == [type |-> name]

----------------------------------------------------------------------------
(* Inputs: what the server and the network can answer *)

HttpResponse(status_code, text, headers) ==
    [status_code |-> status_code, text |-> text, headers |-> headers]

BodyResult == "{\"result\": {\"ok\": true}}"

BodyPlain == "{\"Campaigns\": []}"

BodyError10 == "{\"error\": {\"error_code\": 10, \"error_string\": \"bad request\"}}"

BodyError52 == "{\"error\": {\"error_code\": 52, \"error_string\": \"server busy\"}}"

BodyError70 == "{\"error\": {\"error_code\": 70, \"error_string\": \"try later\"}}"

BodyError71 == "{\"error\": {\"error_code\": 71, \"error_string\": \"bad params\"}}"

BodyError0 == "{\"error\": {\"error_code\": 0, \"error_string\": \"zero\"}}"

BodyErrorNoCode == "{\"error\": {\"error_string\": \"no code\"}}"

BodyErrorBare == "{\"error\": {\"error_code\": 10}}"

BodyNotJson == "oops"

BodyJsonList == "[]"

\* Responses of a service endpoint {api_url}/{service}
ApiResponses ==
    { HttpResponse(200, BodyResult, EmptyDict),
      HttpResponse(200, BodyPlain, [RequestId |-> "r1"]),
      HttpResponse(200, "", EmptyDict),
      HttpResponse(200, BodyError10, [RequestId |-> "r1"]),
      HttpResponse(200, BodyError52, [RequestId |-> "r1"]),
      HttpResponse(200, BodyError52, [RequestId |-> "r2"]),
      HttpResponse(200, BodyError70, EmptyDict),
      HttpResponse(200, BodyError71, EmptyDict),
      HttpResponse(200, BodyError0, EmptyDict),
      HttpResponse(200, BodyErrorNoCode, EmptyDict),
      HttpResponse(202, BodyErrorBare, [RequestId |-> "r2"]),
      HttpResponse(200, BodyNotJson, EmptyDict),
      HttpResponse(200, BodyJsonList, EmptyDict),
      HttpResponse(400, "", EmptyDict),
      HttpResponse(429, BodyError70, [RequestId |-> "r2"]),
      HttpResponse(500, BodyNotJson, [RequestId |-> "r1"]),
      HttpResponse(503, BodyError52, EmptyDict) }

\* Responses of the reports endpoint
ReportResponses ==
    { HttpResponse(201, "", [RequestId |-> "r1", retryIn |-> "1"]),
      HttpResponse(201, "", [RequestId |-> "r2", retryIn |-> "7"]),
      HttpResponse(201, "", EmptyDict),
      HttpResponse(200, "tsv-body", [RequestId |-> "r2"]),
      HttpResponse(200, "", EmptyDict),
      HttpResponse(202, "a\tb", [retryIn |-> "7"]),
      HttpResponse(400, "bad report", [RequestId |-> "r3"]),
      HttpResponse(503, BodyNotJson, EmptyDict) }

TransportMessages == {"boom"}

\* What urllib.request.urlopen can meet on one round trip
Answer(r) ==
    [kind |-> "http", status_code |-> r.status_code,
     body |-> [utf8 |-> TRUE, text |-> r.text], headers |-> r.headers]

\* an HTTP response whose body bytes are not valid UTF-8
Garbled(status_code, headers) ==
    [kind |-> "http", status_code |-> status_code,
     body |-> [utf8 |-> FALSE, text |-> ""], headers |-> headers]

\* no HTTP response: DNS, connection refused, TLS failure, timeout
NoAnswer(message) == [kind |-> "failed", message |-> message]

Network(responses) ==
    {Answer(r) : r \in responses}
        \cup {NoAnswer(m) : m \in TransportMessages}
        \cup {Garbled(200, EmptyDict), Garbled(500, [RequestId |-> "r1"])}

----------------------------------------------------------------------------
(* transport.py *)

DecodeMessage == "'utf-8' codec can't decode byte 0xff"

\* HttpTransport.post_json, given what the network did `n`. urlopen returns a
\* 2xx response and raises HTTPError for the other statuses; the body is
\* decoded inside the try block on the first path and inside the
\* `except HTTPError` handler on the second.
post_json(n) ==
    IF n.kind = "failed"
    THEN Raise(DirectTransportError(n.message))
    ELSE IF n.status_code \in 200..299
    THEN IF n.body.utf8
         THEN Return(HttpResponse(n.status_code, n.body.text, n.headers))
         ELSE Raise(DirectTransportError(DecodeMessage))
    ELSE IF n.body.utf8
         THEN Return(HttpResponse(n.status_code, n.body.text, n.headers))
         ELSE Raise(OtherError("UnicodeDecodeError"))

----------------------------------------------------------------------------
(* config.py *)

\* DirectConfig(access_token="t", client_login="l") with the default fields
config ==
    [access_token |-> "t",
     client_login |-> "l",
     locale       |-> "ru",
     api_url      |-> "https://api.direct.yandex.com/json/v5",
     reports_url  |-> "https://api.direct.yandex.com/json/v5/reports"]

\* DirectConfig.headers
config_headers(c) ==
    ("Authorization" :> ("Bearer " \o c.access_token))
        @@ ("Client-Login" :> c.client_login)
        @@ ("Accept-Language" :> c.locale)
        @@ ("Content-Type" :> "application/json; charset=utf-8")

\* {**a, **b}, a.update(b): the value of b wins
Merge(a, b) ==
    [k \in DOMAIN a \cup DOMAIN b |-> IF k \in DOMAIN b THEN b[k] ELSE a[k]]

----------------------------------------------------------------------------
(* json.loads on the body texts above *)

json_loads(text) ==
    CASE text = BodyResult ->
            [ok |-> TRUE, type |-> "dict", value |-> [result |-> [ok |-> TRUE]]]
      [] text = BodyPlain ->
            [ok |-> TRUE, type |-> "dict", value |-> [Campaigns |-> <<>>]]
      [] text = BodyError10 ->
            [ok |-> TRUE, type |-> "dict",
             value |-> [error |-> [error_code |-> 10, error_string |-> "bad request"]]]
      [] text = BodyError52 ->
            [ok |-> TRUE, type |-> "dict",
             value |-> [error |-> [error_code |-> 52, error_string |-> "server busy"]]]
      [] text = BodyError70 ->
            [ok |-> TRUE, type |-> "dict",
             value |-> [error |-> [error_code |-> 70, error_string |-> "try later"]]]
      [] text = BodyError71 ->
            [ok |-> TRUE, type |-> "dict",
             value |-> [error |-> [error_code |-> 71, error_string |-> "bad params"]]]
      [] text = BodyError0 ->
            [ok |-> TRUE, type |-> "dict",
             value |-> [error |-> [error_code |-> 0, error_string |-> "zero"]]]
      [] text = BodyErrorNoCode ->
            [ok |-> TRUE, type |-> "dict",
             value |-> [error |-> [error_string |-> "no code"]]]
      [] text = BodyErrorBare ->
            [ok |-> TRUE, type |-> "dict",
             value |-> [error |-> [error_code |-> 10]]]
      [] text = BodyJsonList ->
            [ok |-> TRUE, type |-> "list", value |-> <<>>]
      [] OTHER ->
            [ok |-> FALSE, type |-> "JSONDecodeError", value |-> <<>>]

----------------------------------------------------------------------------
(* client.py: the response classifier *)

\* Faulty variant: the classifier keeps state; a response it has seen before
\* is answered with an empty payload
parse_api_response_remembers(status_code, text, headers) ==
    IF HttpResponse(status_code, text, headers) \in DOMAIN classified
    THEN Return(EmptyDict)
    ELSE IF status_code >= 400
    THEN Raise(DirectApiError("HTTP error " \o ToString(status_code),
                              None, [body |-> text],
                              DictGet(headers, "RequestId"),
                              Some(status_code)))
    ELSE Return(EmptyDict)

\* Faulty variant: the body is parsed before the status is looked at
parse_api_response_body_first(status_code, text, headers) ==
    LET request_id == DictGet(headers, "RequestId")
        parsed == IF text = ""
                  THEN [ok |-> TRUE, type |-> "dict", value |-> EmptyDict]
                  ELSE json_loads(text)
        data == parsed.value
    IN  IF parsed.ok /\ parsed.type = "dict" /\ "error" \in DOMAIN data
        THEN LET error == data["error"]
             IN  Raise(DirectApiError(
                        IF "error_string" \in DOMAIN error
                        THEN error["error_string"]
                        ELSE "Yandex Direct API error",
                        DictGet(error, "error_code"),
                        error, request_id, Some(status_code)))
        ELSE IF status_code >= 400
        THEN Raise(DirectApiError("HTTP error " \o ToString(status_code),
                                  None, [body |-> text], request_id,
                                  Some(status_code)))
        ELSE IF ~parsed.ok
        THEN Raise(OtherError("JSONDecodeError"))
        ELSE IF parsed.type # "dict"
        THEN Raise(OtherError("AttributeError"))
        ELSE Return(IF "result" \in DOMAIN data THEN data["result"] ELSE data)

\* Faulty variant: details is the whole parsed body, not the error mapping
parse_api_response_whole_details(status_code, text, headers) ==
    LET request_id == DictGet(headers, "RequestId")
        parsed == IF text = ""
                  THEN [ok |-> TRUE, type |-> "dict", value |-> EmptyDict]
                  ELSE json_loads(text)
        data == parsed.value
    IN  IF status_code >= 400
        THEN Raise(DirectApiError("HTTP error " \o ToString(status_code),
                                  None, [body |-> text], request_id,
                                  Some(status_code)))
        ELSE IF ~parsed.ok
        THEN Raise(OtherError("JSONDecodeError"))
        ELSE IF parsed.type # "dict"
        THEN Raise(OtherError("AttributeError"))
        ELSE IF "error" \in DOMAIN data
        THEN LET error == data["error"]
             IN  Raise(DirectApiError(
                        IF "error_string" \in DOMAIN error
                        THEN error["error_string"]
                        ELSE "Yandex Direct API error",
                        DictGet(error, "error_code"),
                        data, request_id, Some(status_code)))
        ELSE Return(IF "result" \in DOMAIN data THEN data["result"] ELSE data)

\* Faulty variant: the parsed mapping is returned whole, `result` or not
parse_api_response_no_unwrap(status_code, text, headers) ==
    LET request_id == DictGet(headers, "RequestId")
        parsed == IF text = ""
                  THEN [ok |-> TRUE, type |-> "dict", value |-> EmptyDict]
                  ELSE json_loads(text)
        data == parsed.value
    IN  IF status_code >= 400
        THEN Raise(DirectApiError("HTTP error " \o ToString(status_code),
                                  None, [body |-> text], request_id,
                                  Some(status_code)))
        ELSE IF ~parsed.ok
        THEN Raise(OtherError("JSONDecodeError"))
        ELSE IF parsed.type # "dict"
        THEN Raise(OtherError("AttributeError"))
        ELSE IF "error" \in DOMAIN data
        THEN LET error == data["error"]
             IN  Raise(DirectApiError(
                        IF "error_string" \in DOMAIN error
                        THEN error["error_string"]
                        ELSE "Yandex Direct API error",
                        DictGet(error, "error_code"),
                        error, request_id, Some(status_code)))
        ELSE Return(data)

\* YandexDirectClient._parse_api_response
parse_api_response(status_code, text, headers) ==
    LET request_id == DictGet(headers, "RequestId")
        parsed == IF text = ""
                  THEN [ok |-> TRUE, type |-> "dict", value |-> EmptyDict]
                  ELSE json_loads(text)
        data == parsed.value
    IN  IF status_code >= 400
        THEN Raise(DirectApiError("HTTP error " \o ToString(status_code),
                                  None, [body |-> text], request_id,
                                  Some(status_code)))
        ELSE IF ~parsed.ok
        THEN Raise(OtherError("JSONDecodeError"))
        ELSE IF parsed.type # "dict"
        THEN Raise(OtherError("AttributeError"))   \* [].get
        ELSE IF "error" \in DOMAIN data
        THEN LET error == data["error"]
             IN  Raise(DirectApiError(
                        IF "error_string" \in DOMAIN error
                        THEN error["error_string"]
                        ELSE "Yandex Direct API error",
                        DictGet(error, "error_code"),
                        error, request_id, Some(status_code)))
        ELSE Return(IF "result" \in DOMAIN data THEN data["result"] ELSE data)

\* str.lower on the service names used here
lower(name) ==
    CASE name = "Campaigns" -> "campaigns"
      [] name = "ADS" -> "ads"
      [] name = "Unknown_Service" -> "unknown_service"
      [] OTHER -> name

\* Faulty variant: the service name goes into the url as it was written
call_request_no_lower(c, service, method, params) ==
    [url     |-> c.api_url \o "/" \o service,
     payload |-> [method |-> method,
                  params |-> IF params = None \/ params[1] = EmptyDict
                             THEN EmptyDict
                             ELSE params[1]],
     headers |-> config_headers(c)]

\* YandexDirectClient.call: what is passed to transport.post_json.
\* `params or {}`: None and the empty dict both give {}.
call_request(c, service, method, params) ==
    [url     |-> c.api_url \o "/" \o lower(service),
     payload |-> [method |-> method,
                  params |-> IF params = None \/ params[1] = EmptyDict
                             THEN EmptyDict
                             ELSE params[1]],
     headers |-> config_headers(c)]

\* YandexDirectClient.call, the decorated function: `t` is what
\* transport.post_json did; a DirectTransportError is logged and re-raised.
call(t) ==
    IF t.kind = "raise"
    THEN t
    ELSE parse_api_response(t.value.status_code, t.value.text, t.value.headers)

----------------------------------------------------------------------------
(* client.py: services and their proxies *)

V5_SERVICES ==
    { "adextensions", "adgroups", "adimages", "ads", "agencyclients",
      "audiencetargets", "bidmodifiers", "bids", "businesses", "campaigns",
      "changes", "clients", "dictionaries", "dynamictextadtargets", "feeds",
      "keywordbids", "keywords", "keywordsresearch", "leads",
      "negativekeywordsharedsets", "retargetinglists", "sitelinks",
      "smartadtargets", "strategies", "turbopages", "vcards" }

ServiceProxy(service) == [type |-> "ServiceProxy", service |-> service]

\* YandexDirectClient.service
client_service(service_name) == Return(ServiceProxy(service_name))

\* YandexDirectClient.__getattr__
client_getattr(service_name) ==
    LET normalized == lower(service_name)
    IN  IF normalized \in V5_SERVICES
        THEN client_service(normalized)
        ELSE Raise([type |-> "AttributeError", name |-> service_name])

\* method_name.replace("_", "") on the method names used here
remove_underscores(method_name) ==
    CASE method_name = "get_all" -> "getall"
      [] method_name = "_add_" -> "add"
      [] OTHER -> method_name

\* Faulty variant: the method name is passed on as it was written
proxy_call_arguments_keeps_underscores(service, method_name, params) ==
    [service |-> service, method |-> method_name, params |-> Some(params)]

\* ServiceProxy.__getattr__(method_name)(**params) -> ServiceProxy.call ->
\* the arguments of self.client.call
proxy_call_arguments(service, method_name, params) ==
    [service |-> service,
     method  |-> remove_underscores(method_name),
     params  |-> Some(params)]

----------------------------------------------------------------------------
(* client.py: with_retry *)

RETRYABLE_ERROR_CODES == 50..70

RETRYABLE_HTTP_CODES == {429, 500, 502, 503, 504}

DefaultMaxAttempts == 3

DefaultBaseDelay == 1

DefaultMaxDelay == 30

DefaultExponentialBase == 2

\* The arguments of one with_retry(...) decoration
WithRetry(max_attempts, base_delay, max_delay, exponential_base, retry_on_error_codes, retry_on_http_codes) ==
    [max_attempts         |-> max_attempts,
     base_delay           |-> base_delay,
     max_delay            |-> max_delay,
     exponential_base     |-> exponential_base,
     retry_on_error_codes |-> retry_on_error_codes,
     retry_on_http_codes  |-> retry_on_http_codes]

\* @with_retry(max_attempts=3, base_delay=1.0) on YandexDirectClient.call
CallRetry ==
    WithRetry(3, 1, DefaultMaxDelay, DefaultExponentialBase, None, None)

\* Other decorations the decorator accepts:
\* <<base_delay, max_delay, exponential_base, retry_on_error_codes>>
Decorations ==
    { <<DefaultBaseDelay, DefaultMaxDelay, DefaultExponentialBase, None>>,
      <<DefaultBaseDelay, DefaultMaxDelay, DefaultExponentialBase, Some({})>>,
      <<2, 3, 2, Some({0, 10})>>,
      <<1, 4, 3, None>> }

RetryArgs ==
    { WithRetry(m, d[1], d[2], d[3], d[4], None) :
        m \in 0..MaxAttemptsBound, d \in Decorations }

\* `x or default` for an optional set: None and the empty set are falsy
error_codes(c) ==
    IF c.retry_on_error_codes # None /\ c.retry_on_error_codes[1] # {}
    THEN c.retry_on_error_codes[1]
    ELSE RETRYABLE_ERROR_CODES

\* Faulty variant: a status in the retryable HTTP set is retried as well
is_retryable_or_http(c, exc) ==
    \/ /\ exc.error_code # None
       /\ exc.error_code[1] # 0
       /\ exc.error_code[1] \in error_codes(c)
    \/ /\ exc.status_code # None
       /\ exc.status_code[1] \in RETRYABLE_HTTP_CODES

\* `exc.error_code and exc.error_code in error_codes`: None and 0 are falsy
is_retryable(c, exc) ==
    /\ exc.error_code # None
    /\ exc.error_code[1] # 0
    /\ exc.error_code[1] \in error_codes(c)

\* Faulty variant: the exponent is the 1-based attempt number
backoff_delay_one_based(c, n) ==
    Min(c.base_delay * Pow(c.exponential_base, n + 1), c.max_delay)

\* min(base_delay * (exponential_base ** attempt), max_delay)
backoff_delay(c, n) ==
    Min(c.base_delay * Pow(c.exponential_base, n), c.max_delay)

\* Faulty variant: each failure kind has its own counter; the exponent of the
\* delay is the number of earlier failures of the same kind
wrapper_iteration_separate_counters(c, n, last, o) ==
    LET same == Cardinality({i \in 1..Len(requests) :
                    /\ requests[i].kind = "raise"
                    /\ requests[i].exc.type = "DirectTransportError"})
        k == IF o.exc.type = "DirectTransportError" THEN same ELSE n - same
    IN  IF o.kind = "return"
        THEN [next |-> "return", delay |-> 0, outcome |-> o,
              last_exception |-> last]
        ELSE IF o.exc.type \in {"DirectApiError", "DirectTransportError"}
                /\ (o.exc.type = "DirectApiError" => is_retryable(c, o.exc))
                /\ k < c.max_attempts - 1
        THEN [next |-> "sleep", delay |-> backoff_delay(c, k),
              outcome |-> o, last_exception |-> o.exc]
        ELSE [next |-> "raise", delay |-> 0, outcome |-> o,
              last_exception |-> IF o.exc.type \in {"DirectApiError",
                                                    "DirectTransportError"}
                                 THEN o.exc ELSE last]

\* Faulty variant: a success that follows a failure raises the failure kept
wrapper_iteration_forgets_success(c, n, last, o) ==
    IF o.kind = "return"
    THEN IF last = None
         THEN [next |-> "return", delay |-> 0, outcome |-> o,
               last_exception |-> last]
         ELSE [next |-> "raise", delay |-> 0, outcome |-> Raise(last),
               last_exception |-> last]
    ELSE IF o.exc.type \in {"DirectApiError", "DirectTransportError"}
            /\ (o.exc.type = "DirectApiError" => is_retryable(c, o.exc))
            /\ n < c.max_attempts - 1
    THEN [next |-> "sleep", delay |-> backoff_delay(c, n),
          outcome |-> o, last_exception |-> o.exc]
    ELSE [next |-> "raise", delay |-> 0, outcome |-> o, last_exception |-> last]

\* Faulty variant: what is raised is last_exception as it was before this attempt
wrapper_iteration_raises_previous(c, n, last, o) ==
    IF o.kind = "return"
    THEN [next |-> "return", delay |-> 0, outcome |-> o, last_exception |-> last]
    ELSE IF o.exc.type \in {"DirectApiError", "DirectTransportError"}
            /\ (o.exc.type = "DirectApiError" => is_retryable(c, o.exc))
            /\ n < c.max_attempts - 1
    THEN [next |-> "sleep", delay |-> backoff_delay(c, n),
          outcome |-> o, last_exception |-> o.exc]
    ELSE [next |-> "raise", delay |-> 0,
          outcome |-> IF last = None THEN o ELSE Raise(last),
          last_exception |-> last]

\* Faulty variant: the last attempt sleeps too (attempt < max_attempts)
wrapper_iteration_sleeps_after_last(c, n, last, o) ==
    IF o.kind = "return"
    THEN [next |-> "return", delay |-> 0, outcome |-> o, last_exception |-> last]
    ELSE IF o.exc.type \in {"DirectApiError", "DirectTransportError"}
            /\ (o.exc.type = "DirectApiError" => is_retryable(c, o.exc))
    THEN IF n < c.max_attempts
         THEN [next |-> "sleep", delay |-> backoff_delay(c, n),
               outcome |-> o, last_exception |-> o.exc]
         ELSE [next |-> "raise", delay |-> 0,
               outcome |-> o, last_exception |-> o.exc]
    ELSE [next |-> "raise", delay |-> 0, outcome |-> o, last_exception |-> last]

\* Faulty variant: a transport failure is re-raised at once, never retried
wrapper_iteration_no_transport_retry(c, n, last, o) ==
    IF o.kind = "return"
    THEN [next |-> "return", delay |-> 0, outcome |-> o, last_exception |-> last]
    ELSE IF o.exc.type = "DirectApiError"
            /\ is_retryable(c, o.exc) /\ n < c.max_attempts - 1
    THEN [next |-> "sleep", delay |-> backoff_delay(c, n),
          outcome |-> o, last_exception |-> o.exc]
    ELSE [next |-> "raise", delay |-> 0, outcome |-> o, last_exception |-> last]

\* One iteration of the loop of with_retry.wrapper, given the outcome `o` of
\* func(*args, **kwargs): return it, re-raise it, or sleep and continue.
\* `last` is last_exception before the iteration.
wrapper_iteration(c, n, last, o) ==
    IF o.kind = "return"
    THEN [next |-> "return", delay |-> 0, outcome |-> o, last_exception |-> last]
    ELSE IF o.exc.type = "DirectApiError"
    THEN IF is_retryable(c, o.exc) /\ n < c.max_attempts - 1
         THEN [next |-> "sleep", delay |-> backoff_delay(c, n),
               outcome |-> o, last_exception |-> o.exc]
         ELSE [next |-> "raise", delay |-> 0,
               outcome |-> o, last_exception |-> o.exc]
    ELSE IF o.exc.type = "DirectTransportError"
    THEN IF n < c.max_attempts - 1
         THEN [next |-> "sleep", delay |-> backoff_delay(c, n),
               outcome |-> o, last_exception |-> o.exc]
         ELSE [next |-> "raise", delay |-> 0,
               outcome |-> o, last_exception |-> o.exc]
    ELSE \* not caught by the wrapper
         [next |-> "raise", delay |-> 0, outcome |-> o, last_exception |-> last]

\* `raise last_exception` after the loop; raising None is a TypeError
raise_last_exception(e) ==
    IF e = None THEN Raise(OtherError("TypeError")) ELSE Raise(e)

----------------------------------------------------------------------------
(* reports.py *)

ReportRequest(report_definition, return_money_in_micros, skip_report_header, skip_column_header, skip_report_summary, include_vat, include_discount, processing_mode, extra_headers) ==
    [report_definition      |-> report_definition,
     return_money_in_micros |-> return_money_in_micros,
     skip_report_header     |-> skip_report_header,
     skip_column_header     |-> skip_column_header,
     skip_report_summary    |-> skip_report_summary,
     include_vat            |-> include_vat,
     include_discount       |-> include_discount,
     processing_mode        |-> processing_mode,
     extra_headers          |-> extra_headers]

\* str(b).lower()
bool_lower(b) == IF b THEN "true" ELSE "false"

yes_no(b) == IF b THEN "YES" ELSE "NO"

\* The flag headers of ReportRequest.headers, before extra_headers
flag_headers(r) ==
    LET always == ("returnMoneyInMicros" :> bool_lower(r.return_money_in_micros))
                    @@ ("skipReportHeader" :> bool_lower(r.skip_report_header))
                    @@ ("skipColumnHeader" :> bool_lower(r.skip_column_header))
                    @@ ("skipReportSummary" :> bool_lower(r.skip_report_summary))
        vat == IF r.include_vat # None
               THEN "IncludeVAT" :> yes_no(r.include_vat[1])
               ELSE EmptyDict
        discount == IF r.include_discount # None
                    THEN "IncludeDiscount" :> yes_no(r.include_discount[1])
                    ELSE EmptyDict
        mode == IF r.processing_mode # None
                THEN "processingMode" :> r.processing_mode[1]
                ELSE EmptyDict
    IN  Merge(Merge(Merge(always, vat), discount), mode)

\* Faulty variant: the flag headers are laid over extra_headers
request_headers_flags_win(r) == Merge(r.extra_headers, flag_headers(r))

\* ReportRequest.headers
request_headers(r) == Merge(flag_headers(r), r.extra_headers)

\* ReportRequest.payload
request_payload(r) == [params |-> r.report_definition]

----------------------------------------------------------------------------
(* client.py: reports *)

DefaultReportAttempts == 12

DefaultPollInterval == 5

PollIntervals == {0, DefaultPollInterval}

\* YandexDirectClient.get_report: what is passed to transport.post_json
report_request(c, r) ==
    [url     |-> c.reports_url,
     payload |-> request_payload(r),
     headers |-> Merge(config_headers(c), request_headers(r))]

\* Faulty variant: every status but 200 below 400 counts as "being generated"
get_report_only_200(t) ==
    IF t.kind = "raise"
    THEN t
    ELSE LET response == t.value
         IN  IF response.status_code >= 400
             THEN Raise(DirectApiError(
                        "Report request failed with status "
                            \o ToString(response.status_code),
                        None, [body |-> response.text],
                        DictGet(response.headers, "RequestId"),
                        Some(response.status_code)))
             ELSE IF response.status_code # 200
             THEN Raise(DirectApiError(
                        "Report is being generated", None,
                        [retry_in |-> DictGet(response.headers, "retryIn")],
                        DictGet(response.headers, "RequestId"), Some(201)))
             ELSE Return(response.text)

\* YandexDirectClient.get_report, given what transport.post_json did
get_report(t) ==
    IF t.kind = "raise"
    THEN t
    ELSE LET response == t.value
         IN  IF response.status_code = 201
             THEN Raise(DirectApiError(
                        "Report is being generated", None,
                        [retry_in |-> DictGet(response.headers, "retryIn")],
                        DictGet(response.headers, "RequestId"), Some(201)))
             ELSE IF response.status_code >= 400
             THEN Raise(DirectApiError(
                        "Report request failed with status "
                            \o ToString(response.status_code),
                        None, [body |-> response.text],
                        DictGet(response.headers, "RequestId"),
                        Some(response.status_code)))
             ELSE Return(response.text)

\* Faulty variant: a 201 is re-raised like any other DirectApiError
poll_iteration_no_retry(interval, last, o) ==
    IF o.kind = "return"
    THEN [next |-> "return", delay |-> 0, outcome |-> o, last_error |-> last]
    ELSE [next |-> "raise", delay |-> 0, outcome |-> o, last_error |-> last]

\* Faulty variant: every DirectApiError is slept on, whatever its status_code
poll_iteration_any_status(interval, last, o) ==
    IF o.kind = "return"
    THEN [next |-> "return", delay |-> 0, outcome |-> o, last_error |-> last]
    ELSE IF o.exc.type = "DirectApiError"
    THEN [next |-> "sleep", delay |-> interval, outcome |-> o,
          last_error |-> o.exc]
    ELSE [next |-> "raise", delay |-> 0, outcome |-> o, last_error |-> last]

\* Faulty variant: last_error keeps the first 201 failure
poll_iteration_keeps_first(interval, last, o) ==
    IF o.kind = "return"
    THEN [next |-> "return", delay |-> 0, outcome |-> o, last_error |-> last]
    ELSE IF o.exc.type = "DirectApiError" /\ o.exc.status_code = Some(201)
    THEN [next |-> "sleep", delay |-> interval, outcome |-> o,
          last_error |-> IF last = None THEN o.exc ELSE last]
    ELSE [next |-> "raise", delay |-> 0, outcome |-> o, last_error |-> last]

\* Faulty variant: the delay is the server's retryIn hint when there is one
poll_iteration_retry_in(interval, last, o) ==
    IF o.kind = "return"
    THEN [next |-> "return", delay |-> 0, outcome |-> o, last_error |-> last]
    ELSE IF o.exc.type = "DirectApiError" /\ o.exc.status_code = Some(201)
    THEN [next |-> "sleep",
          delay |-> IF o.exc.details["retry_in"] = Some("7") THEN 7
                    ELSE IF o.exc.details["retry_in"] = Some("1") THEN 1
                    ELSE interval,
          outcome |-> o, last_error |-> o.exc]
    ELSE [next |-> "raise", delay |-> 0, outcome |-> o, last_error |-> last]

\* One iteration of the loop of get_report_ready, given the outcome `o` of
\* get_report(request): return it, re-raise it, or sleep and go on.
\* `last` is last_error before the iteration.
poll_iteration(interval, last, o) ==
    IF o.kind = "return"
    THEN [next |-> "return", delay |-> 0, outcome |-> o, last_error |-> last]
    ELSE IF o.exc.type = "DirectApiError" /\ o.exc.status_code = Some(201)
    THEN [next |-> "sleep", delay |-> interval, outcome |-> o,
          last_error |-> o.exc]
    ELSE [next |-> "raise", delay |-> 0, outcome |-> o, last_error |-> last]

\* Faulty variant: last_error is read without the `if last_error` test
not_ready_unguarded(n, e) ==
    IF e = None
    THEN Raise(OtherError("AttributeError"))
    ELSE Raise(DirectApiError(
            "Report was not ready after " \o ToString(n) \o " attempts",
            None, e.details, e.request_id, Some(201)))

\* The DirectApiError raised after the loop of get_report_ready
not_ready(n, e) ==
    Raise(DirectApiError(
        "Report was not ready after " \o ToString(n) \o " attempts",
        None,
        IF e # None THEN e.details ELSE EmptyDict,
        IF e # None THEN e.request_id ELSE None,
        Some(201)))

----------------------------------------------------------------------------
(* The caller's arguments *)

\* client.call(service, method, params)
CallArgs ==
    { [service |-> "ads", method |-> "get",
       params |-> Some([FieldNames |-> <<"Id">>])],
      [service |-> "Campaigns", method |-> "get", params |-> None],
      [service |-> "ADS", method |-> "add", params |-> Some(EmptyDict)] }

\* the call made through a function decorated with other with_retry arguments
DecoratedArgs == [service |-> "ads", method |-> "get", params |-> None]

\* names given to client.<name> and to client.service(name)
ServiceNames ==
    {"campaigns", "Campaigns", "ads", "unknown_service", "Unknown_Service"}

\* proxy.<method_name>(**params) on the proxy of `service`
ProxyArgs ==
    { [service |-> "campaigns", method_name |-> "get_all",
       params |-> [FieldNames |-> <<"Id">>]],
      [service |-> "Unknown_Service", method_name |-> "_add_",
       params |-> EmptyDict] }

\* what the network does while a proxy call is running
ProxyNetwork ==
    { Answer(HttpResponse(200, BodyResult, EmptyDict)),
      Answer(HttpResponse(200, BodyError52, [RequestId |-> "r1"])),
      Answer(HttpResponse(200, BodyError10, [RequestId |-> "r1"])),
      NoAnswer("boom") }

ReportRequests ==
    { ReportRequest([ReportName |-> "r"], FALSE, TRUE, FALSE, TRUE,
                    None, None, None, EmptyDict),
      ReportRequest([ReportName |-> "r"], TRUE, TRUE, FALSE, FALSE,
                    Some(TRUE), Some(FALSE), Some("auto"),
                    ("skipReportHeader" :> "false")
                        @@ ("Authorization" :> "Bearer other")
                        @@ ("X-Trace" :> "1")) }

\* Faulty variant: ServiceProxy.call is not retried on its own
ProxyRetry_one_attempt ==
    WithRetry(1, 1, DefaultMaxDelay, DefaultExponentialBase, None, None)

\* @with_retry(max_attempts=3, base_delay=1.0) on ServiceProxy.call
ProxyRetry ==
    WithRetry(3, 1, DefaultMaxDelay, DefaultExponentialBase, None, None)

\* The retry fields of YandexDirectClient: retry_enabled, retry_max_attempts,
\* retry_base_delay, retry_max_delay, retry_on_error_codes, retry_on_http_codes
RetryFields(retry_enabled, retry_max_attempts, retry_base_delay, retry_max_delay, retry_on_error_codes, retry_on_http_codes) ==
    [retry_enabled        |-> retry_enabled,
     retry_max_attempts   |-> retry_max_attempts,
     retry_base_delay     |-> retry_base_delay,
     retry_max_delay      |-> retry_max_delay,
     retry_on_error_codes |-> retry_on_error_codes,
     retry_on_http_codes  |-> retry_on_http_codes]

\* the defaults of the dataclass, and a client built with every field changed
RetrySettings ==
    { RetryFields(TRUE, DefaultMaxAttempts, DefaultBaseDelay, DefaultMaxDelay,
                  None, None),
      RetryFields(FALSE, 1, 5, 7, Some({10}), Some({400})) }

----------------------------------------------------------------------------
(* The state machine *)

NoResult == [kind |-> "none"]

NoArgs == [kind |-> "none"]

\* Threads that call the same client concurrently
Threads == {1, 2}

\* The locals of one call on its own thread: those of with_retry.wrapper
\* (attempt, last_exception) and of get_report_ready (attempt, last_error),
\* with the thread's own log of transport outcomes and sleeps
IdleThread ==
    [pc             |-> "idle",
     op             |-> "none",
     attempt        |-> 0,
     last_exception |-> None,
     last_error     |-> None,
     attempts       |-> DefaultReportAttempts,
     requests       |-> <<>>,
     sleeps         |-> <<>>,
     result         |-> NoResult]

Init ==
    /\ pc = "idle"
    /\ op = "none"
    /\ args = NoArgs
    /\ cfg = CallRetry
    /\ attempt = 0
    /\ last_exception = None
    /\ outer_attempt = 0
    /\ outer_last_exception = None
    /\ last_error = None
    /\ attempts = DefaultReportAttempts
    /\ report_poll_interval_s \in PollIntervals
    /\ retry_settings \in RetrySettings
    /\ classified = EmptyDict
    /\ threads = [t \in Threads |-> IdleThread]
    /\ sent = <<>>
    /\ answers = <<>>
    /\ requests = <<>>
    /\ sleeps = <<>>
    /\ result = NoResult

\* Entering `for attempt in range(max_attempts)` of with_retry.wrapper
EnterWrapper(name, a, c) ==
    /\ pc = "idle"
    /\ op' = name
    /\ args' = a
    /\ cfg' = c
    /\ attempt' = 0
    /\ last_exception' = None
    /\ outer_attempt' = 0
    /\ outer_last_exception' = None
    /\ sent' = <<>>
    /\ answers' = <<>>
    /\ requests' = <<>>
    /\ sleeps' = <<>>
    /\ IF 0 < c.max_attempts
       THEN pc' = "attempt" /\ result' = NoResult
       ELSE pc' = "done" /\ result' = raise_last_exception(None)
    /\ UNCHANGED <<last_error, attempts, report_poll_interval_s>>
    /\ UNCHANGED <<retry_settings, classified, threads>>

\* Faulty variant: the decoration of client.call is built from the client's
\* retry fields
Call_reads_retry_settings ==
    \E a \in CallArgs :
        EnterWrapper("call", a,
                     WithRetry(retry_settings.retry_max_attempts,
                               retry_settings.retry_base_delay,
                               retry_settings.retry_max_delay,
                               DefaultExponentialBase,
                               retry_settings.retry_on_error_codes,
                               retry_settings.retry_on_http_codes))

\* The caller invokes client.call(service, method, params)
Call == \E a \in CallArgs : EnterWrapper("call", a, CallRetry)

\* The caller invokes a function decorated with other with_retry arguments
Retry == \E c \in RetryArgs : EnterWrapper("with_retry", DecoratedArgs, c)

\* The caller invokes proxy.<method_name>(**params): ServiceProxy.call's
\* wrapper calls client.call, whose wrapper starts its own loop
ProxyCall ==
    \E a \in ProxyArgs :
        EnterWrapper("proxy",
                     proxy_call_arguments(a.service, a.method_name, a.params)
                        @@ [method_name |-> a.method_name],
                     CallRetry)

\* with_retry.wrapper: one attempt, func = YandexDirectClient.call. When the
\* call was made through a proxy, what the wrapper of client.call returns or
\* raises is the outcome of one attempt of the wrapper of ServiceProxy.call.
WrapperAttempt ==
    /\ pc = "attempt"
    /\ op \in {"call", "with_retry", "proxy"}
    /\ \E n \in (IF op = "proxy" THEN ProxyNetwork ELSE Network(ApiResponses)) :
        LET t  == post_json(n)
            it == wrapper_iteration(cfg, attempt, last_exception, call(t))
            ot == wrapper_iteration(ProxyRetry, outer_attempt,
                                    outer_last_exception, it.outcome)
        IN  /\ sent' = Append(sent, call_request(config, args.service,
                                                 args.method, args.params))
            /\ answers' = Append(answers, n)
            /\ requests' = Append(requests, t)
            /\ last_exception' = it.last_exception
            /\ IF it.next = "sleep"
               THEN /\ pc' = "sleep"
                    /\ result' = result
                    /\ sleeps' = Append(sleeps, it.delay)
                    /\ outer_last_exception' = outer_last_exception
               ELSE IF op = "proxy"
               THEN /\ outer_last_exception' = ot.last_exception
                    /\ IF ot.next = "sleep"
                       THEN /\ pc' = "outer_sleep"
                            /\ result' = result
                            /\ sleeps' = Append(sleeps, ot.delay)
                       ELSE /\ pc' = "done"
                            /\ result' = ot.outcome
                            /\ sleeps' = sleeps
               ELSE /\ pc' = "done"
                    /\ result' = it.outcome
                    /\ sleeps' = sleeps
                    /\ outer_last_exception' = outer_last_exception
    /\ UNCHANGED <<op, args, cfg, attempt, outer_attempt, last_error, attempts,
                   report_poll_interval_s>>
    /\ UNCHANGED <<retry_settings, classified, threads>>

\* Faulty variant: `continue` without advancing the loop index
WrapperSleep_no_progress ==
    /\ pc = "sleep"
    /\ op \in {"call", "with_retry", "proxy"}
    /\ pc' = "attempt"
    /\ UNCHANGED <<op, args, cfg, attempt, last_exception, outer_attempt,
                   outer_last_exception, last_error, attempts,
                   report_poll_interval_s, sent, answers, requests, sleeps,
                   result>>
    /\ UNCHANGED <<retry_settings, classified, threads>>

\* with_retry.wrapper: time.sleep(delay) returns, `continue`
WrapperSleep ==
    /\ pc = "sleep"
    /\ op \in {"call", "with_retry", "proxy"}
    /\ attempt' = attempt + 1
    /\ IF attempt + 1 < cfg.max_attempts
       THEN pc' = "attempt" /\ result' = result
       ELSE pc' = "done" /\ result' = raise_last_exception(last_exception)
    /\ UNCHANGED <<op, args, cfg, last_exception, outer_attempt,
                   outer_last_exception, last_error, attempts,
                   report_poll_interval_s, sent, answers, requests, sleeps>>
    /\ UNCHANGED <<retry_settings, classified, threads>>

\* The wrapper of ServiceProxy.call: time.sleep(delay) returns, `continue`;
\* the next attempt enters the wrapper of client.call afresh
ProxySleep ==
    /\ pc = "outer_sleep"
    /\ op = "proxy"
    /\ outer_attempt' = outer_attempt + 1
    /\ attempt' = 0
    /\ last_exception' = None
    /\ IF outer_attempt + 1 < ProxyRetry.max_attempts
       THEN pc' = "attempt" /\ result' = result
       ELSE pc' = "done" /\ result' = raise_last_exception(outer_last_exception)
    /\ UNCHANGED <<op, args, cfg, outer_last_exception, last_error, attempts,
                   report_poll_interval_s, sent, answers, requests, sleeps>>
    /\ UNCHANGED <<retry_settings, classified, threads>>

\* The caller reads client.<service_name>
ClientGetattr ==
    /\ pc = "idle"
    /\ \E name \in ServiceNames :
        /\ args' = [service_name |-> name]
        /\ result' = client_getattr(name)
    /\ op' = "getattr"
    /\ pc' = "done"
    /\ UNCHANGED <<cfg, attempt, last_exception, outer_attempt,
                   outer_last_exception, last_error, attempts,
                   report_poll_interval_s, sent, answers, requests, sleeps>>
    /\ UNCHANGED <<retry_settings, classified, threads>>

\* The caller invokes client.service(service_name)
ClientService ==
    /\ pc = "idle"
    /\ \E name \in ServiceNames :
        /\ args' = [service_name |-> name]
        /\ result' = client_service(name)
    /\ op' = "service"
    /\ pc' = "done"
    /\ UNCHANGED <<cfg, attempt, last_exception, outer_attempt,
                   outer_last_exception, last_error, attempts,
                   report_poll_interval_s, sent, answers, requests, sleeps>>
    /\ UNCHANGED <<retry_settings, classified, threads>>

\* The caller invokes client.get_report(request)
GetReport ==
    /\ pc = "idle"
    /\ \E r \in ReportRequests, n \in Network(ReportResponses) :
        /\ args' = [request |-> r]
        /\ sent' = <<report_request(config, r)>>
        /\ answers' = <<n>>
        /\ requests' = <<post_json(n)>>
        /\ result' = get_report(post_json(n))
    /\ op' = "get_report"
    /\ pc' = "done"
    /\ UNCHANGED <<cfg, attempt, last_exception, outer_attempt,
                   outer_last_exception, last_error, attempts,
                   report_poll_interval_s, sleeps>>
    /\ UNCHANGED <<retry_settings, classified, threads>>

\* The caller invokes client.get_report_ready(request, attempts=n)
GetReportReady ==
    /\ pc = "idle"
    /\ \E r \in ReportRequests, n \in 0..MaxReportAttempts :
        /\ args' = [request |-> r]
        /\ attempts' = n
        /\ IF 0 < n
           THEN pc' = "attempt" /\ result' = NoResult
           ELSE pc' = "done" /\ result' = not_ready(n, None)
    /\ op' = "get_report_ready"
    /\ last_error' = None
    /\ UNCHANGED <<cfg, attempt, last_exception, outer_attempt,
                   outer_last_exception, report_poll_interval_s, sent,
                   answers, requests, sleeps>>
    /\ UNCHANGED <<retry_settings, classified, threads>>

\* get_report_ready: one attempt
ReportAttempt ==
    /\ pc = "attempt"
    /\ op = "get_report_ready"
    /\ \E n \in Network(ReportResponses) :
        LET t  == post_json(n)
            it == poll_iteration(report_poll_interval_s, last_error,
                                 get_report(t))
        IN  /\ sent' = Append(sent, report_request(config, args.request))
            /\ answers' = Append(answers, n)
            /\ requests' = Append(requests, t)
            /\ last_error' = it.last_error
            /\ IF it.next = "sleep"
               THEN /\ pc' = "sleep"
                    /\ result' = result
                    /\ sleeps' = Append(sleeps, it.delay)
               ELSE /\ pc' = "done"
                    /\ result' = it.outcome
                    /\ sleeps' = sleeps
    /\ UNCHANGED <<op, args, cfg, attempt, last_exception, outer_attempt,
                   outer_last_exception, attempts, report_poll_interval_s>>
    /\ UNCHANGED <<retry_settings, classified, threads>>

\* Faulty variant: the loop runs once more than `attempts`
ReportSleep_one_more ==
    /\ pc = "sleep"
    /\ op = "get_report_ready"
    /\ attempt' = attempt + 1
    /\ IF attempt + 1 <= attempts
       THEN pc' = "attempt" /\ result' = result
       ELSE pc' = "done" /\ result' = not_ready(attempts, last_error)
    /\ UNCHANGED <<op, args, cfg, last_exception, outer_attempt,
                   outer_last_exception, last_error, attempts,
                   report_poll_interval_s, sent, answers, requests, sleeps>>
    /\ UNCHANGED <<retry_settings, classified, threads>>

\* get_report_ready: time.sleep(report_poll_interval_s) returns, next iteration
ReportSleep ==
    /\ pc = "sleep"
    /\ op = "get_report_ready"
    /\ attempt' = attempt + 1
    /\ IF attempt + 1 < attempts
       THEN pc' = "attempt" /\ result' = result
       ELSE pc' = "done" /\ result' = not_ready(attempts, last_error)
    /\ UNCHANGED <<op, args, cfg, last_exception, outer_attempt,
                   outer_last_exception, last_error, attempts,
                   report_poll_interval_s, sent, answers, requests, sleeps>>
    /\ UNCHANGED <<retry_settings, classified, threads>>

\* The caller has the value or the exception; the client is idle again
Finish ==
    /\ pc = "done"
    /\ pc' = "idle"
    /\ op' = "none"
    /\ args' = NoArgs
    /\ cfg' = CallRetry
    /\ attempt' = 0
    /\ last_exception' = None
    /\ outer_attempt' = 0
    /\ outer_last_exception' = None
    /\ last_error' = None
    /\ attempts' = DefaultReportAttempts
    /\ sent' = <<>>
    /\ answers' = <<>>
    /\ requests' = <<>>
    /\ sleeps' = <<>>
    /\ result' = NoResult
    /\ UNCHANGED report_poll_interval_s
    /\ UNCHANGED <<retry_settings, classified, threads>>

Next ==
    \/ Call
    \/ Retry
    \/ ProxyCall
    \/ WrapperAttempt
    \/ WrapperSleep
    \/ ProxySleep
    \/ ClientGetattr
    \/ ClientService
    \/ GetReport
    \/ GetReportReady
    \/ ReportAttempt
    \/ ReportSleep
    \/ Finish

\* (status, body, headers) triples handed to the classifier directly
ClassifyInputs ==
    { HttpResponse(200, BodyResult, EmptyDict),
      HttpResponse(200, BodyError52, [RequestId |-> "r1"]),
      HttpResponse(200, "", EmptyDict),
      HttpResponse(503, BodyError52, EmptyDict),
      HttpResponse(200, BodyNotJson, EmptyDict) }

\* The caller invokes client._parse_api_response(status_code, text, headers);
\* the history keeps the first outcome of each triple and counts its uses
Classify ==
    /\ pc = "idle"
    /\ \E x \in ClassifyInputs :
        LET o == parse_api_response(x.status_code, x.text, x.headers)
        IN  /\ x \in DOMAIN classified => classified[x].times < MaxClassified
            /\ args' = [response |-> x]
            /\ result' = o
            /\ classified' =
                 IF x \in DOMAIN classified
                 THEN [classified EXCEPT ![x].times = @ + 1]
                 ELSE (x :> [outcome |-> o, times |-> 1]) @@ classified
    /\ op' = "classify"
    /\ pc' = "done"
    /\ UNCHANGED <<cfg, attempt, last_exception, outer_attempt,
                   outer_last_exception, last_error, attempts,
                   report_poll_interval_s, retry_settings, threads,
                   sent, answers, requests, sleeps>>

\* The classifier called again and again, other calls on the client in between
ClassifyNext ==
    \/ Classify
    \/ ClientGetattr
    \/ ClientService
    \/ GetReport
    \/ Finish

ClassifySpec == Init /\ [][ClassifyNext]_vars

Spec == Init /\ [][Next]_vars

\* Every transport request and every sleep that was started returns
FairSpec ==
    /\ Spec
    /\ WF_vars(WrapperAttempt)
    /\ WF_vars(WrapperSleep)
    /\ WF_vars(ProxySleep)
    /\ WF_vars(ReportAttempt)
    /\ WF_vars(ReportSleep)

----------------------------------------------------------------------------
(* Two calls running concurrently on the same client *)

\* what the network does to the requests of the concurrent calls
ThreadNetwork ==
    { Answer(HttpResponse(200, BodyResult, EmptyDict)),
      Answer(HttpResponse(200, BodyError52, [RequestId |-> "r1"])),
      Answer(HttpResponse(200, BodyError10, EmptyDict)),
      NoAnswer("boom") }

ThreadReportNetwork ==
    { Answer(HttpResponse(201, "", [RequestId |-> "r1", retryIn |-> "1"])),
      Answer(HttpResponse(201, "", EmptyDict)),
      Answer(HttpResponse(200, "tsv-body", EmptyDict)),
      NoAnswer("boom") }

\* Thread t takes a step to the locals r; the client's fields are only read
OnThread(t, r) ==
    /\ threads' = [threads EXCEPT ![t] = r]
    /\ UNCHANGED <<pc, op, args, cfg, attempt, last_exception, outer_attempt,
                   outer_last_exception, last_error, attempts,
                   report_poll_interval_s, retry_settings, classified,
                   sent, answers, requests, sleeps, result>>

\* Thread t invokes client.call: it enters with_retry.wrapper
ThreadCall(t) ==
    /\ threads[t].pc = "idle"
    /\ OnThread(t, [IdleThread EXCEPT !.op = "call", !.pc = "attempt"])

\* with_retry.wrapper on thread t: one attempt
ThreadAttempt(t) ==
    /\ threads[t].pc = "attempt"
    /\ threads[t].op = "call"
    /\ \E n \in ThreadNetwork :
        LET th == threads[t]
            o  == post_json(n)
            it == wrapper_iteration(CallRetry, th.attempt, th.last_exception,
                                    call(o))
        IN  OnThread(t, [th EXCEPT
                !.requests = Append(@, o),
                !.last_exception = it.last_exception,
                !.pc = IF it.next = "sleep" THEN "sleep" ELSE "done",
                !.sleeps = IF it.next = "sleep" THEN Append(@, it.delay) ELSE @,
                !.result = IF it.next = "sleep" THEN @ ELSE it.outcome])

\* Faulty variant: the loop index is one counter shared by all threads
ThreadSleep_shared_counter(t) ==
    /\ threads[t].pc = "sleep"
    /\ threads[t].op = "call"
    /\ LET th == threads[t]
           shared == 1 + Cardinality({u \in Threads : threads[u].attempt > 0})
       IN  OnThread(t, [th EXCEPT
                !.attempt = shared,
                !.pc = IF shared < CallRetry.max_attempts
                       THEN "attempt" ELSE "done",
                !.result = IF shared < CallRetry.max_attempts
                           THEN @ ELSE raise_last_exception(th.last_exception)])

\* with_retry.wrapper on thread t: time.sleep(delay) returns, `continue`
ThreadSleep(t) ==
    /\ threads[t].pc = "sleep"
    /\ threads[t].op = "call"
    /\ LET th == threads[t]
       IN  OnThread(t, [th EXCEPT
                !.attempt = @ + 1,
                !.pc = IF th.attempt + 1 < CallRetry.max_attempts
                       THEN "attempt" ELSE "done",
                !.result = IF th.attempt + 1 < CallRetry.max_attempts
                           THEN @ ELSE raise_last_exception(th.last_exception)])

\* Thread t invokes client.get_report_ready(request, attempts=n)
ThreadGetReportReady(t) ==
    /\ threads[t].pc = "idle"
    /\ \E n \in 1..MaxThreadAttempts :
        OnThread(t, [IdleThread EXCEPT !.op = "get_report_ready",
                                       !.pc = "attempt", !.attempts = n])

\* get_report_ready on thread t: one attempt
ThreadReportAttempt(t) ==
    /\ threads[t].pc = "attempt"
    /\ threads[t].op = "get_report_ready"
    /\ \E n \in ThreadReportNetwork :
        LET th == threads[t]
            o  == post_json(n)
            it == poll_iteration(report_poll_interval_s, th.last_error,
                                 get_report(o))
        IN  OnThread(t, [th EXCEPT
                !.requests = Append(@, o),
                !.last_error = it.last_error,
                !.pc = IF it.next = "sleep" THEN "sleep" ELSE "done",
                !.sleeps = IF it.next = "sleep" THEN Append(@, it.delay) ELSE @,
                !.result = IF it.next = "sleep" THEN @ ELSE it.outcome])

\* get_report_ready on thread t: time.sleep returns, next iteration
ThreadReportSleep(t) ==
    /\ threads[t].pc = "sleep"
    /\ threads[t].op = "get_report_ready"
    /\ LET th == threads[t]
       IN  OnThread(t, [th EXCEPT
                !.attempt = @ + 1,
                !.pc = IF th.attempt + 1 < th.attempts
                       THEN "attempt" ELSE "done",
                !.result = IF th.attempt + 1 < th.attempts
                           THEN @ ELSE not_ready(th.attempts, th.last_error)])

ThreadsNext ==
    \E t \in Threads :
        \/ ThreadCall(t)
        \/ ThreadAttempt(t)
        \/ ThreadSleep(t)
        \/ ThreadGetReportReady(t)
        \/ ThreadReportAttempt(t)
        \/ ThreadReportSleep(t)

ThreadsSpec == Init /\ [][ThreadsNext]_vars

----------------------------------------------------------------------------
(* Reading the logs *)

\* The i-th transport request raised DirectTransportError
TransportFailed(i) ==
    /\ requests[i].kind = "raise"
    /\ requests[i].exc.type = "DirectTransportError"

\* The i-th transport request got an HTTP response with this status
Answered(i, status_code) ==
    /\ requests[i].kind = "return"
    /\ requests[i].value.status_code = status_code

InWrapper == op \in {"call", "with_retry"}

InReport == op = "get_report_ready"

----------------------------------------------------------------------------
(* C1: if the transport raises DirectTransportError on every request,
   client.call makes exactly 3 transport requests and then raises
   DirectTransportError to the caller; it never returns a value and never
   raises another kind of error. *)
C1_TransportErrorBubbles ==
    (op = "call" /\ \A i \in 1..Len(requests) : TransportFailed(i)) =>
        /\ Len(requests) <= 3
        /\ pc = "done" =>
            /\ Len(requests) = 3
            /\ result.kind = "raise"
            /\ result.exc.type = "DirectTransportError"
        /\ pc # "done" => result = NoResult

C1_Witness ==
    /\ op = "call"
    /\ pc = "done"
    /\ Len(requests) = 3
    /\ \A i \in 1..3 : TransportFailed(i)
    /\ result = Raise(DirectTransportError("boom"))

(* C2: inside one with_retry wrapper a DirectApiError is followed by another
   attempt if and only if its error_code is present, is a member of the
   retryable error-code set and fewer than max_attempts attempts have been
   made; every other DirectApiError is propagated on the attempt where it
   occurs, with no sleep and no further transport request. *)
C2_ApiErrorRetriedIffRetryable ==
    LET k == Len(requests)
    IN  (/\ InWrapper
         /\ k >= 1
         /\ pc \in {"sleep", "done"}
         /\ call(requests[k]).kind = "raise"
         /\ call(requests[k]).exc.type = "DirectApiError") =>
            LET exc == call(requests[k]).exc
                another_attempt == pc = "sleep"
            IN  /\ another_attempt <=>
                    /\ exc.error_code # None
                    /\ exc.error_code[1] \in error_codes(cfg)
                    /\ k < cfg.max_attempts
                /\ ~another_attempt =>
                    /\ result = Raise(exc)
                    /\ Len(sleeps) = k - 1

\* The outcome of the wrapped function on the i-th attempt
AttemptOutcome(i) == call(requests[i])

(* C3: when client.call gives up after max_attempts failed attempts, the
   error it raises is the failure produced by the last attempt, not the first
   or an intermediate one, with the same type and the same message,
   error_code, status_code, request_id and details. *)
C3_LastFailureReraised ==
    (/\ InWrapper
     /\ pc = "done"
     /\ Len(requests) >= 1
     /\ Len(requests) = cfg.max_attempts
     /\ \A i \in 1..Len(requests) : AttemptOutcome(i).kind = "raise") =>
        /\ result.kind = "raise"
        /\ result.exc = AttemptOutcome(Len(requests)).exc

C3_Witness ==
    /\ op = "call"
    /\ pc = "done"
    /\ Len(requests) = 3
    /\ \A i \in 1..3 : AttemptOutcome(i).kind = "raise"
    /\ AttemptOutcome(1) # AttemptOutcome(3)
    /\ AttemptOutcome(2) # AttemptOutcome(3)
    /\ AttemptOutcome(3).exc.type = "DirectApiError"
    /\ result = AttemptOutcome(3)

(* C4: in one with_retry wrapper a sleep happens only between two attempts:
   every sleep is followed by another call of the wrapped operation, no sleep
   follows the final (max_attempts-th) attempt, and a run in which all
   max_attempts attempts fail retryably performs exactly max_attempts - 1
   sleeps. *)
C4_SleepOnlyBetweenAttempts ==
    /\ [](InWrapper =>
            /\ pc = "sleep" =>
                /\ Len(sleeps) = Len(requests)
                /\ Len(requests) < cfg.max_attempts
            /\ pc = "attempt" => Len(sleeps) = Len(requests)
            /\ (pc = "done" /\ Len(requests) >= 1) =>
                Len(sleeps) = Len(requests) - 1
            /\ (pc = "done" /\ Len(requests) >= 1
                            /\ Len(requests) = cfg.max_attempts) =>
                Len(sleeps) = cfg.max_attempts - 1)
    /\ [][(InWrapper /\ pc = "sleep") =>
            /\ pc' = "attempt"
            /\ requests' = requests
            /\ sleeps' = sleeps]_vars
    /\ [][(InWrapper /\ pc = "attempt") =>
            Len(requests') = Len(requests) + 1]_vars

C4_Witness ==
    /\ op = "with_retry"
    /\ pc = "done"
    /\ cfg.max_attempts = 3
    /\ Len(requests) = 3
    /\ Len(sleeps) = 2
    /\ TransportFailed(1)
    /\ AttemptOutcome(2).exc.type = "DirectApiError"
    /\ result.kind = "raise"

(* C5: the delay slept after the n-th failed attempt (n from 1,
   n < max_attempts) is min(base_delay * exponential_base^(n-1), max_delay),
   for retryable API failures and for transport failures alike; with the
   defaults the delays of one client.call are 1 then 2 seconds, and no delay
   exceeds max_delay. *)
C5_BackoffDelays ==
    InWrapper =>
        /\ \A n \in 1..Len(sleeps) :
            /\ n < cfg.max_attempts
            /\ sleeps[n] = IF cfg.base_delay * Pow(cfg.exponential_base, n - 1)
                                <= cfg.max_delay
                           THEN cfg.base_delay * Pow(cfg.exponential_base, n - 1)
                           ELSE cfg.max_delay
            /\ sleeps[n] <= cfg.max_delay
        /\ op = "call" => sleeps \in {<<>>, <<1>>, <<1, 2>>}

\* both failure kinds slept on, and the cap max_delay reached
C5_Witness ==
    /\ op = "with_retry"
    /\ cfg.max_delay = 3
    /\ sleeps = <<2, 3>>
    /\ TransportFailed(1)
    /\ AttemptOutcome(2).exc.type = "DirectApiError"

(* C6: for get_report_ready with attempts = N >= 1, if the first k-1
   responses (1 <= k <= N) have status 201 and the k-th response has a status
   below 400 other than 201, get_report_ready returns the k-th response's
   body text verbatim after exactly k transport requests and makes no
   further request. *)
C6_ReportReturnedWhenReady ==
    LET k == Len(requests)
    IN  (/\ InReport
         /\ k >= 1
         /\ \A i \in 1..(k - 1) : Answered(i, 201)
         /\ requests[k].kind = "return"
         /\ requests[k].value.status_code < 400
         /\ requests[k].value.status_code # 201) =>
            /\ k <= attempts
            /\ pc = "done"
            /\ result = Return(requests[k].value.text)

C6_Witness ==
    /\ InReport
    /\ pc = "done"
    /\ attempts = 3
    /\ Len(requests) = 2
    /\ Answered(1, 201)
    /\ Answered(2, 200)
    /\ result = Return("tsv-body")

(* C7: if every response has status 201, get_report_ready with attempts = N
   makes exactly N transport requests and then raises DirectApiError with
   status_code 201 and the message "Report was not ready after N attempts";
   it never makes an (N+1)-th request. *)
C7_ReportNotReady ==
    (InReport /\ \A i \in 1..Len(requests) : Answered(i, 201)) =>
        /\ Len(requests) <= attempts
        /\ pc # "done" => result = NoResult
        /\ pc = "done" =>
            /\ Len(requests) = attempts
            /\ result.kind = "raise"
            /\ result.exc.type = "DirectApiError"
            /\ result.exc.status_code = Some(201)
            /\ result.exc.message =
                 "Report was not ready after " \o ToString(attempts) \o " attempts"

C7_Witness ==
    /\ InReport
    /\ pc = "done"
    /\ attempts = 2
    /\ Len(requests) = 2
    /\ Answered(1, 201)
    /\ Answered(2, 201)
    /\ result.exc.message = "Report was not ready after 2 attempts"

(* C8: in get_report_ready any failure other than a DirectApiError with
   status_code 201 (a report response with status >= 400, or a
   DirectTransportError from the transport) is propagated on the attempt
   where it occurs: no sleep and no further transport request follows it,
   whatever number of attempts remains. *)
C8_ReportFailurePropagates ==
    LET k == Len(requests)
    IN  (/\ InReport
         /\ k >= 1
         /\ \/ TransportFailed(k)
            \/ /\ requests[k].kind = "return"
               /\ requests[k].value.status_code >= 400) =>
            /\ pc = "done"
            /\ Len(sleeps) = k - 1
            /\ result.kind = "raise"
            /\ IF TransportFailed(k)
               THEN result.exc = requests[k].exc
               ELSE /\ result.exc.type = "DirectApiError"
                    /\ result.exc.status_code =
                         Some(requests[k].value.status_code)
                    /\ result.exc.details = [body |-> requests[k].value.text]

\* a status >= 400 on the first of three attempts
C8_Witness ==
    /\ InReport
    /\ pc = "done"
    /\ attempts = 3
    /\ Len(requests) = 1
    /\ Answered(1, 503)
    /\ sleeps = <<>>
    /\ result.exc.status_code = Some(503)

(* C9: when get_report_ready exhausts its attempts on 201 responses, the
   raised DirectApiError carries the request_id and the details (retry_in) of
   the last 201 response received, not those of an earlier response. *)
C9_LastSeenPreserved ==
    LET k == Len(requests)
    IN  (/\ InReport
         /\ pc = "done"
         /\ k >= 1
         /\ \A i \in 1..k : Answered(i, 201)) =>
            /\ result.kind = "raise"
            /\ result.exc.request_id =
                 DictGet(requests[k].value.headers, "RequestId")
            /\ result.exc.details =
                 [retry_in |-> DictGet(requests[k].value.headers, "retryIn")]

C9_Witness ==
    /\ InReport
    /\ pc = "done"
    /\ Len(requests) = 3
    /\ \A i \in 1..3 : Answered(i, 201)
    /\ requests[1].value.headers = [RequestId |-> "r1", retryIn |-> "1"]
    /\ requests[2].value.headers = EmptyDict
    /\ requests[3].value.headers = [RequestId |-> "r2", retryIn |-> "7"]
    /\ result.exc.request_id = Some("r2")
    /\ result.exc.details = [retry_in |-> Some("7")]

(* C10: every sleep performed by get_report_ready lasts exactly
   report_poll_interval_s, whatever value the server's retryIn header
   carries; the retryIn value is only stored in the error's details and
   never changes the delay or the number of attempts. *)
C10_FixedPollInterval ==
    InReport =>
        /\ \A i \in 1..Len(sleeps) :
            /\ sleeps[i] = report_poll_interval_s
            /\ Answered(i, 201)
        /\ Len(sleeps) = Cardinality({i \in 1..Len(requests) : Answered(i, 201)})
        /\ Len(requests) <= attempts
        /\ (pc = "done" /\ \A i \in 1..Len(requests) : Answered(i, 201)) =>
            Len(requests) = attempts

C10_Witness ==
    /\ InReport
    /\ report_poll_interval_s = 5
    /\ Len(requests) = 2
    /\ Answered(1, 201)
    /\ Answered(2, 201)
    /\ requests[1].value.headers = [RequestId |-> "r1", retryIn |-> "1"]
    /\ requests[2].value.headers = [RequestId |-> "r2", retryIn |-> "7"]
    /\ sleeps = <<5, 5>>

----------------------------------------------------------------------------
\* The HTTP response the last transport request got, when it got one
LastResponse == requests[Len(requests)].value

LastAnswered ==
    /\ Len(requests) >= 1
    /\ requests[Len(requests)].kind = "return"

\* the RequestId header if present, unset otherwise
RequestIdOf(headers) ==
    IF "RequestId" \in DOMAIN headers THEN Some(headers["RequestId"]) ELSE None

(* C11: for every response with status >= 400, whatever its body, the
   classifier raises DirectApiError with status_code equal to the status,
   request_id equal to the RequestId header if present and unset otherwise,
   error_code unset and details = {"body": body}. Such an error is never
   retried, so it is what client.call raises. *)
C11_HttpErrorClassified ==
    (InWrapper /\ LastAnswered /\ LastResponse.status_code >= 400) =>
        /\ pc = "done"
        /\ result.kind = "raise"
        /\ result.exc.type = "DirectApiError"
        /\ result.exc.status_code = Some(LastResponse.status_code)
        /\ result.exc.request_id = RequestIdOf(LastResponse.headers)
        /\ result.exc.error_code = None
        /\ result.exc.details = [body |-> LastResponse.text]

\* a retried transport failure, then a 503 whose body is a retryable payload
C11_Witness ==
    /\ op = "call"
    /\ pc = "done"
    /\ Len(requests) = 2
    /\ TransportFailed(1)
    /\ Answered(2, 503)
    /\ requests[2].value.text = BodyError52
    /\ result.kind = "raise"
    /\ result.exc.error_code = None
    /\ result.exc.details = [body |-> BodyError52]

(* C12: for every response with status < 400 whose body parses to a mapping
   with an error key, the classifier raises DirectApiError with error_code
   equal to error.error_code (unset when absent), message equal to
   error.error_string (a generic default when absent), status_code as given,
   request_id from the RequestId header and details equal to the whole error
   mapping. The wrapper keeps that error in last_exception and raises it
   when it gives up. *)
C12_ErrorPayloadClassified ==
    (/\ InWrapper
     /\ LastAnswered
     /\ LastResponse.status_code < 400
     /\ json_loads(LastResponse.text).ok
     /\ json_loads(LastResponse.text).type = "dict"
     /\ "error" \in DOMAIN json_loads(LastResponse.text).value) =>
        LET error == json_loads(LastResponse.text).value["error"]
        IN  /\ last_exception # None
            /\ last_exception.type = "DirectApiError"
            /\ last_exception.error_code =
                 (IF "error_code" \in DOMAIN error
                  THEN Some(error["error_code"]) ELSE None)
            /\ last_exception.message =
                 (IF "error_string" \in DOMAIN error
                  THEN error["error_string"] ELSE "Yandex Direct API error")
            /\ last_exception.status_code = Some(LastResponse.status_code)
            /\ last_exception.request_id = RequestIdOf(LastResponse.headers)
            /\ last_exception.details = error
            /\ pc = "done" => result = Raise(last_exception)

\* status 202, an error mapping with a code and no error_string
C12_Witness ==
    /\ op = "call"
    /\ pc = "done"
    /\ LastAnswered
    /\ LastResponse.status_code = 202
    /\ LastResponse.text = BodyErrorBare
    /\ result.kind = "raise"
    /\ result.exc.message = "Yandex Direct API error"
    /\ result.exc.error_code = Some(10)
    /\ result.exc.request_id = Some("r2")

(* C13: for every response with status < 400 whose body parses to a mapping
   without an error key, the classifier returns the value under the result
   key when it is present and the whole mapping otherwise; an empty body
   gives an empty mapping. client.call returns that value at once. *)
C13_SuccessPayload ==
    (/\ InWrapper
     /\ LastAnswered
     /\ LastResponse.status_code < 400
     /\ \/ LastResponse.text = ""
        \/ /\ json_loads(LastResponse.text).ok
           /\ json_loads(LastResponse.text).type = "dict"
           /\ "error" \notin DOMAIN json_loads(LastResponse.text).value) =>
        LET data == IF LastResponse.text = ""
                    THEN EmptyDict
                    ELSE json_loads(LastResponse.text).value
        IN  /\ pc = "done"
            /\ result.kind = "return"
            /\ result.value =
                 (IF "result" \in DOMAIN data THEN data["result"] ELSE data)

\* an enveloped payload after a retried failure
C13_Witness ==
    /\ op = "call"
    /\ pc = "done"
    /\ Len(requests) = 2
    /\ LastResponse.text = BodyResult
    /\ result = Return([ok |-> TRUE])

(* C14: every call attempt of client.call (one transport request followed by
   classification) ends in exactly one of three variants: a success payload,
   a DirectApiError or a DirectTransportError, for every status code and
   every body text the transport can return, a body with status < 400 that
   is not valid JSON or not a JSON object included. *)
C14_ThreeOutcomeVariants ==
    op = "call" =>
        /\ \A i \in 1..Len(requests) :
            (requests[i].kind = "return" \/ TransportFailed(i)) =>
                \/ AttemptOutcome(i).kind = "return"
                \/ /\ AttemptOutcome(i).kind = "raise"
                   /\ AttemptOutcome(i).exc.type
                        \in {"DirectApiError", "DirectTransportError"}
        /\ (pc = "done" /\ LastAnswered) =>
                \/ result.kind = "return"
                \/ /\ result.kind = "raise"
                   /\ result.exc.type
                        \in {"DirectApiError", "DirectTransportError"}

(* C15: resolving a service name that is not in the 26-entry registry fails
   with AttributeError and makes no transport request, both for the
   attribute access client.<name> and for client.service(name). A name is
   taken as in the registry when its lower-cased form is. *)
C15_UnknownServiceFails ==
    (/\ pc = "done"
     /\ op \in {"getattr", "service"}
     /\ lower(args.service_name) \notin V5_SERVICES) =>
        /\ result.kind = "raise"
        /\ result.exc.type = "AttributeError"
        /\ requests = <<>>

(* C16: invoking a dynamically resolved method name m on a service proxy with
   keyword parameters performs client.call(service, m without underscores,
   params): every request it sends is the one of that call; when the first
   response is a success, exactly one transport request is made and the
   success payload is returned. *)
C16_ProxyDynamicMethod ==
    op = "proxy" =>
        LET m == CASE args.method_name = "get_all" -> "getall"
                   [] args.method_name = "_add_" -> "add"
        IN  /\ \A i \in 1..Len(sent) :
                /\ sent[i].url = config.api_url \o "/" \o lower(args.service)
                /\ sent[i].payload = [method |-> m, params |-> args.params[1]]
            /\ Len(sent) = Len(requests)
            /\ (/\ Len(requests) >= 1
                /\ AttemptOutcome(1).kind = "return") =>
                    /\ pc = "done"
                    /\ Len(requests) = 1
                    /\ sleeps = <<>>
                    /\ result = AttemptOutcome(1)

\* proxy.get_all(FieldNames=["Id"]) answered at once
C16_Witness ==
    /\ op = "proxy"
    /\ pc = "done"
    /\ args.method_name = "get_all"
    /\ Len(requests) = 1
    /\ sent[1].payload =
         [method |-> "getall", params |-> [FieldNames |-> <<"Id">>]]
    /\ result = Return([ok |-> TRUE])

(* C17: the retry policy is not applied to report fetching: one get_report
   makes exactly one transport request whatever the outcome (success, 201,
   status >= 400 or DirectTransportError) and never sleeps; get_report_ready
   makes at most `attempts` transport requests. *)
C17_NoRetryOnReports ==
    /\ op = "get_report" =>
        /\ Len(requests) = 1
        /\ Len(answers) = 1
        /\ sleeps = <<>>
    /\ op = "get_report_ready" =>
        /\ Len(requests) <= attempts
        /\ Len(answers) = Len(requests)

\* get_report on a 201 or on a 503 stops after one request
C17_Witness ==
    /\ op = "get_report"
    /\ pc = "done"
    /\ \/ Answered(1, 201)
       \/ Answered(1, 503)
    /\ result.kind = "raise"

(* C18: HttpTransport.post_json returns a response object (status, body,
   headers) for every well-formed HTTP response, one with status >= 400
   included, and raises DirectTransportError only when no HTTP response was
   obtained; one invocation is one round trip. *)
C18_TransportReturnsEveryResponse ==
    /\ Len(answers) = Len(requests)
    /\ \A i \in 1..Len(answers) :
        /\ answers[i].kind = "http" =>
            /\ requests[i].kind = "return"
            /\ requests[i].value.status_code = answers[i].status_code
            /\ requests[i].value.headers = answers[i].headers
        /\ (/\ requests[i].kind = "raise"
            /\ requests[i].exc.type = "DirectTransportError") =>
                answers[i].kind = "failed"

(* C19: every transport request of client.call(service, method, params) goes
   to {api_url}/{service lower-cased} with body {"method": method,
   "params": params} (an empty mapping when params is absent) and with the
   Authorization, Client-Login, Accept-Language and Content-Type headers;
   every retry sends the same url, body and headers as the first attempt. *)
C19_CallRequest ==
    op = "call" =>
        /\ Len(sent) = Len(requests)
        /\ \A i \in 1..Len(sent) :
            /\ sent[i].url =
                 (CASE args.service = "ads" ->
                        "https://api.direct.yandex.com/json/v5/ads"
                    [] args.service = "ADS" ->
                        "https://api.direct.yandex.com/json/v5/ads"
                    [] args.service = "Campaigns" ->
                        "https://api.direct.yandex.com/json/v5/campaigns")
            /\ sent[i].payload =
                 [method |-> args.method,
                  params |-> IF args.params = None
                             THEN EmptyDict ELSE args.params[1]]
            /\ DOMAIN sent[i].headers =
                 {"Authorization", "Client-Login", "Accept-Language",
                  "Content-Type"}
            /\ sent[i].headers["Authorization"] = "Bearer t"
            /\ sent[i].headers["Client-Login"] = "l"
            /\ sent[i].headers["Accept-Language"] = "ru"
            /\ sent[i].headers["Content-Type"] =
                 "application/json; charset=utf-8"
            /\ sent[i] = sent[1]

\* client.call("Campaigns", "get") retried twice
C19_Witness ==
    /\ op = "call"
    /\ pc = "done"
    /\ args.service = "Campaigns"
    /\ args.params = None
    /\ Len(sent) = 3
    /\ sent[3].url = "https://api.direct.yandex.com/json/v5/campaigns"
    /\ sent[3].payload = [method |-> "get", params |-> EmptyDict]

(* C20: the headers sent to the reports endpoint are the base auth headers
   overridden by the report-specific headers overridden by the caller's
   extra_headers: for every header key the value sent is the one of the last
   of the three layers that defines it. *)
C20_ReportHeaderLayers ==
    op \in {"get_report", "get_report_ready"} =>
        LET base  == config_headers(config)
            flags == flag_headers(args.request)
            extra == args.request.extra_headers
        IN  \A i \in 1..Len(sent) :
                /\ sent[i].url = config.reports_url
                /\ DOMAIN sent[i].headers =
                     DOMAIN base \cup DOMAIN flags \cup DOMAIN extra
                /\ \A k \in DOMAIN sent[i].headers :
                     sent[i].headers[k] =
                        IF k \in DOMAIN extra THEN extra[k]
                        ELSE IF k \in DOMAIN flags THEN flags[k]
                        ELSE base[k]

\* extra_headers override a flag header and a base header
C20_Witness ==
    /\ op = "get_report"
    /\ pc = "done"
    /\ args.request.skip_report_header
    /\ sent[1].headers["skipReportHeader"] = "false"
    /\ sent[1].headers["Authorization"] = "Bearer other"
    /\ sent[1].headers["Client-Login"] = "l"
    /\ sent[1].headers["IncludeVAT"] = "YES"
    /\ sent[1].headers["X-Trace"] = "1"

(* C21: classifying the same (status, body, headers) triple twice gives the
   same outcome (the same payload, or an error of the same type and fields),
   whatever calls were made on the client in between: every classification
   of a triple equals the first one. *)
C21_ClassifierIdempotent ==
    (op = "classify" /\ pc = "done") =>
        /\ args.response \in DOMAIN classified
        /\ result = classified[args.response].outcome

\* the second classification of an error payload, after other responses
C21_Witness ==
    /\ op = "classify"
    /\ pc = "done"
    /\ args.response = HttpResponse(200, BodyError52, [RequestId |-> "r1"])
    /\ classified[args.response].times = 2
    /\ Cardinality(DOMAIN classified) >= 3
    /\ result.kind = "raise"
    /\ result.exc.error_code = Some(52)

\* Attempt j failed with a DirectTransportError, or with a DirectApiError
\* whose error_code is in the retryable set 50..70
FailedRetryably(j) ==
    /\ AttemptOutcome(j).kind = "raise"
    /\ \/ AttemptOutcome(j).exc.type = "DirectTransportError"
       \/ /\ AttemptOutcome(j).exc.type = "DirectApiError"
          /\ AttemptOutcome(j).exc.error_code # None
          /\ AttemptOutcome(j).exc.error_code[1] \in 50..70

(* C22: in client.call, if attempt k (1 <= k <= 3) is the first to succeed
   and every earlier attempt failed with a DirectTransportError or with a
   DirectApiError whose error_code is retryable, the call returns the payload
   of attempt k after exactly k transport requests and k-1 sleeps, and makes
   no request after the success. *)
C22_FirstSuccessReturns ==
    op = "call" =>
        \A k \in 1..Len(requests) :
            (/\ AttemptOutcome(k).kind = "return"
             /\ \A j \in 1..(k - 1) : FailedRetryably(j)) =>
                /\ k <= 3
                /\ Len(requests) = k
                /\ Len(sleeps) = k - 1
                /\ pc = "done"
                /\ result = AttemptOutcome(k)

\* a transport failure, a retryable API error, then a success
C22_Witness ==
    /\ op = "call"
    /\ pc = "done"
    /\ Len(requests) = 3
    /\ TransportFailed(1)
    /\ Answered(2, 200)
    /\ requests[2].value.text = BodyError52
    /\ AttemptOutcome(3) = Return([ok |-> TRUE])
    /\ sleeps = <<1, 2>>
    /\ result = Return([ok |-> TRUE])

(* C23: a response with a status in the retryable HTTP set {429, 500, 502,
   503, 504} is never retried by client.call: no request and no sleep follow
   it, so one that answers the first request leaves exactly one transport
   request, and the DirectApiError propagates, also when the body is JSON
   with an error_code in 50..70, since the body is never parsed. *)
C23_HttpStatusNeverRetried ==
    op = "call" =>
        \A i \in 1..Len(requests) :
            (/\ requests[i].kind = "return"
             /\ requests[i].value.status_code \in {429, 500, 502, 503, 504}) =>
                /\ i = Len(requests)
                /\ Len(sleeps) = i - 1
                /\ pc = "done"
                /\ result.kind = "raise"
                /\ result.exc.type = "DirectApiError"
                /\ result.exc.status_code = Some(requests[i].value.status_code)
                /\ result.exc.error_code = None

\* a 503 with a retryable error payload answers the first request
C23_Witness ==
    /\ op = "call"
    /\ pc = "done"
    /\ Len(requests) = 1
    /\ Answered(1, 503)
    /\ requests[1].value.text = BodyError52
    /\ sleeps = <<>>
    /\ result.kind = "raise"
    /\ result.exc.status_code = Some(503)

(* C24: in get_report_ready a 201 is handled as sleep-then-retry: every sleep
   is followed by another get_report request, so no sleep occurs after the
   last permitted attempt, and a run of N attempts that all return 201
   performs N-1 sleeps before raising. *)
C24_NoSleepAfterLastAttempt ==
    InReport =>
        /\ (attempts >= 1 /\ Len(requests) = attempts) =>
                Len(sleeps) <= attempts - 1
        /\ (/\ pc = "done"
            /\ attempts >= 1
            /\ Len(requests) = attempts
            /\ \A i \in 1..Len(requests) : Answered(i, 201)) =>
                Len(sleeps) = attempts - 1

(* C25: a call made through a service proxy passes through two stacked retry
   wrappers, each with its own attempt counter of 3: when every attempt fails
   retryably (transport failure or retryable error code) the proxy call makes
   exactly 9 transport requests and 8 sleeps before the failure reaches the
   caller, while a non-retryable DirectApiError reaches the caller at once,
   after exactly 1 request when it answers the first one. *)
C25_StackedWrappers ==
    op = "proxy" =>
        /\ Len(requests) <= 9
        /\ Len(sleeps) <= 8
        /\ attempt < 3
        /\ outer_attempt < 3
        /\ (pc = "done" /\ \A i \in 1..Len(requests) : FailedRetryably(i)) =>
            /\ Len(requests) = 9
            /\ sleeps = <<1, 2, 1, 1, 2, 2, 1, 2>>
            /\ result = AttemptOutcome(9)
        /\ \A i \in 1..Len(requests) :
            (/\ AttemptOutcome(i).kind = "raise"
             /\ AttemptOutcome(i).exc.type = "DirectApiError"
             /\ AttemptOutcome(i).exc.error_code = Some(10)) =>
                /\ i = Len(requests)
                /\ pc = "done"
                /\ result = AttemptOutcome(i)
                /\ Len(sleeps) = Len(requests) - 1

\* nine failed attempts of both kinds
C25_Witness ==
    /\ op = "proxy"
    /\ pc = "done"
    /\ Len(requests) = 9
    /\ Len(sleeps) = 8
    /\ TransportFailed(1)
    /\ Answered(2, 200)
    /\ TransportFailed(8)
    /\ Answered(9, 200)
    /\ outer_attempt = 2
    /\ attempt = 2
    /\ result.kind = "raise"
    /\ result.exc.type = "DirectApiError"
    /\ result.exc.error_code = Some(52)

(* C26: the retry behaviour of client.call does not depend on the client's
   retry fields: for every value of retry_enabled, retry_max_attempts,
   retry_base_delay, retry_max_delay, retry_on_error_codes and
   retry_on_http_codes, the number of transport requests (at most 3), the
   delays slept and the outcome are fixed by the sequence of transport
   outcomes alone. *)
C26_RetryFieldsIgnored ==
    op = "call" =>
        LET n == Len(requests)
        IN  /\ n <= 3
            /\ \A i \in 1..Len(sleeps) : sleeps[i] = IF i = 1 THEN 1 ELSE 2
            /\ n >= 1 =>
                /\ (pc = "done") = (n = 3 \/ ~FailedRetryably(n))
                /\ pc = "done" =>
                    /\ result = AttemptOutcome(n)
                    /\ Len(sleeps) = n - 1
                /\ pc # "done" =>
                    /\ result = NoResult
                    /\ Len(sleeps) = n

\* a client built with retry_enabled=False, retry_max_attempts=1 and
\* retry_base_delay=5 still tries three times and sleeps 1 s and 2 s
C26_Witness ==
    /\ op = "call"
    /\ pc = "done"
    /\ ~retry_settings.retry_enabled
    /\ retry_settings.retry_max_attempts = 1
    /\ retry_settings.retry_base_delay = 5
    /\ Len(requests) = 3
    /\ sleeps = <<1, 2>>
    /\ result.kind = "raise"
    /\ result.exc.type = "DirectApiError"
    /\ result.exc.error_code = Some(52)

\* Attempts so far that ended in a failure of the given exception type
FailuresOf(type) ==
    {i \in 1..Len(requests) :
        /\ AttemptOutcome(i).kind = "raise"
        /\ AttemptOutcome(i).exc.type = type}

(* C27: transport failures and retryable API failures consume the same
   attempt counter of one with_retry wrapper: for every interleaving of the
   two kinds the wrapped operation is called at most max_attempts times, and
   the attempt index of the backoff delay is the number of earlier failures
   of both kinds together. *)
C27_SharedAttemptCounter ==
    InWrapper =>
        LET failures == Cardinality(FailuresOf("DirectTransportError"))
                            + Cardinality(FailuresOf("DirectApiError"))
        IN  /\ Len(requests) <= cfg.max_attempts
            /\ Len(sleeps) <= failures
            /\ pc = "attempt" =>
                /\ attempt = failures
                /\ attempt = Len(requests)
            /\ pc = "sleep" =>
                /\ attempt = failures - 1
                /\ Len(sleeps) = failures
                /\ sleeps[Len(sleeps)] =
                     IF cfg.base_delay * Pow(cfg.exponential_base, failures - 1)
                            <= cfg.max_delay
                     THEN cfg.base_delay * Pow(cfg.exponential_base, failures - 1)
                     ELSE cfg.max_delay

\* a retryable API failure, then a transport failure: the second delay is
\* the one of attempt index 1
C27_Witness ==
    /\ op = "with_retry"
    /\ cfg.max_attempts = 3
    /\ cfg.exponential_base = 3
    /\ pc = "sleep"
    /\ Len(requests) = 2
    /\ AttemptOutcome(1).kind = "raise"
    /\ AttemptOutcome(1).exc.type = "DirectApiError"
    /\ TransportFailed(2)
    /\ sleeps = <<1, 3>>

(* C28: get_report_ready called with attempts = 0 makes no transport request
   and no sleep, and raises DirectApiError with status_code 201, the message
   "Report was not ready after 0 attempts", empty details and no request
   id. *)
C28_ZeroAttempts ==
    (InReport /\ attempts = 0) =>
        /\ pc = "done"
        /\ sent = <<>>
        /\ requests = <<>>
        /\ sleeps = <<>>
        /\ result.kind = "raise"
        /\ result.exc.type = "DirectApiError"
        /\ result.exc.status_code = Some(201)
        /\ result.exc.message = "Report was not ready after 0 attempts"
        /\ result.exc.details = EmptyDict
        /\ result.exc.request_id = None
        /\ result.exc.error_code = None

C28_Witness ==
    /\ InReport
    /\ attempts = 0
    /\ pc = "done"
    /\ report_poll_interval_s = 5
    /\ args.request.extra_headers # EmptyDict
    /\ result.kind = "raise"

(* C29: every client.call and every get_report_ready invocation terminates
   (returns or raises) provided each transport request and each sleep
   terminates: client.call after at most 3 transport requests, a proxy call
   after at most 9, get_report_ready after at most `attempts`; no sequence of
   transport outcomes makes a loop continue past its attempt bound. *)
C29_Terminates ==
    /\ [](op = "call" => Len(requests) <= 3)
    /\ [](op = "proxy" => Len(requests) <= 9)
    /\ [](InReport => Len(requests) <= attempts)
    /\ [](pc = "attempt" =>
            \/ InWrapper /\ attempt < cfg.max_attempts
            \/ op = "proxy" /\ attempt < 3 /\ outer_attempt < 3
            \/ InReport /\ attempt < attempts)
    /\ (pc \in {"attempt", "sleep", "outer_sleep"}) ~> (pc = "done")

\* a proxy call whose nine requests all fail in the transport
C29_Witness ==
    /\ op = "proxy"
    /\ pc = "done"
    /\ Len(requests) = 9
    /\ \A i \in 1..9 : TransportFailed(i)
    /\ result.kind = "raise"
    /\ result.exc.type = "DirectTransportError"

\* What thread t's k-th own attempt gave
ThreadOutcome(t, k) ==
    IF threads[t].op = "call"
    THEN call(threads[t].requests[k])
    ELSE get_report(threads[t].requests[k])

(* C30: two calls (client.call or get_report_ready) running concurrently on
   the same client on separate threads have independent retry state: under
   every interleaving the attempt counter, last failure and delays of one
   call are fixed by the responses to its own requests, so each call makes
   the number of requests and yields the outcome it has when it runs alone
   against the same responses. *)
C30_IndependentRetryState ==
    /\ \A t \in Threads :
        LET th == threads[t]
            n  == Len(th.requests)
        IN  /\ th.pc = "attempt" => th.attempt = n /\ Len(th.sleeps) = n
            /\ th.pc = "sleep" => th.attempt = n - 1 /\ Len(th.sleeps) = n
            /\ th.op = "call" =>
                /\ n <= 3
                /\ \A i \in 1..Len(th.sleeps) :
                        th.sleeps[i] = IF i = 1 THEN 1 ELSE 2
                /\ (n >= 1 /\ ThreadOutcome(t, n).kind = "raise") =>
                        th.last_exception = ThreadOutcome(t, n).exc
                /\ th.pc = "done" =>
                    /\ th.result = ThreadOutcome(t, n)
                    /\ Len(th.sleeps) = n - 1
            /\ th.op = "get_report_ready" =>
                /\ n <= th.attempts
                /\ \A i \in 1..Len(th.sleeps) :
                        th.sleeps[i] = report_poll_interval_s
                /\ (n >= 1 /\ th.pc = "sleep") =>
                        th.last_error = ThreadOutcome(t, n).exc
                /\ th.pc = "done" =>
                        th.result = IF Len(th.sleeps) = n
                                    THEN not_ready(th.attempts,
                                                   ThreadOutcome(t, n).exc)
                                    ELSE ThreadOutcome(t, n)
    /\ \A t, u \in Threads :
        (/\ threads[t].op = threads[u].op
         /\ threads[t].pc = threads[u].pc
         /\ threads[t].attempts = threads[u].attempts
         /\ threads[t].requests = threads[u].requests) =>
            threads[t] = threads[u]

\* one call has ended on its first response while the other, started
\* earlier, is between its second and third attempt
C30_Witness ==
    /\ threads[1].op = "call"
    /\ threads[1].pc = "done"
    /\ Len(threads[1].requests) = 1
    /\ threads[1].result.kind = "raise"
    /\ threads[2].op = "call"
    /\ threads[2].pc = "sleep"
    /\ threads[2].attempt = 1
    /\ Len(threads[2].requests) = 2
    /\ threads[2].sleeps = <<1, 2>>

====
